---- MODULE Spec2Model ----
(***************************************************************************)
(* A model of aggregreat: the pure-function validator of validate.py, the  *)
(* validating classes of aggregation_types.py and the Pipeline container   *)
(* of pipeline.py.                                                         *)
(*                                                                         *)
(* Python values are records tagged with their runtime type (field t).     *)
(* A str carries its text (field s), so that key[0] and path_ref[1:] are   *)
(* computed on the text; a dict carries its entries in insertion order     *)
(* (field pairs, a sequence of <<key, value>>); a list or tuple carries    *)
(* its items.  A call's result is an outcome record: the value returned,   *)
(* or the exception raised and the raise site.                             *)
(***************************************************************************)
EXTENDS Integers, Sequences, FiniteSets, TLC

VARIABLES family, fn, arg, out, examined, pipes, recv, popped

vars == <<family, fn, arg, out, examined, pipes, recv, popped>>

(***************************************************************************)
(* Python values                                                           *)
(***************************************************************************)
PyNone == [t |-> "NoneType"]
PyBool(b) == [t |-> "bool", n |-> IF b THEN 1 ELSE 0]
PyInt(i) == [t |-> "int", n |-> i]
\* a float, held as its number of halves: 2.5 is PyFloat(5), 0.0 is PyFloat(0)
PyFloat(h) == [t |-> "float", h |-> h]
PyStr(s) == [t |-> "str", s |-> s]
PyDatetime == [t |-> "datetime"]
PyObjectId == [t |-> "ObjectId"]
\* datetime.date is not a datetime.datetime: the tests' non-BSON scalar
PyDate == [t |-> "date"]
PyTuple(items) == [t |-> "tuple", items |-> items]
PyList(items) == [t |-> "list", items |-> items]
PyDict(pairs) == [t |-> "dict", pairs |-> pairs]

\* isinstance(v, str), isinstance(v, bool), isinstance(v, int): bool is a
\* subclass of int
IsStr(v) == v.t = "str"
IsBool(v) == v.t = "bool"
IsInt(v) == v.t \in {"int", "bool"}
IsList(v) == v.t = "list"
IsDict(v) == v.t = "dict"

\* v == n for a Python number n: 0 == False == 0.0
NumEq(v, n) ==
    \/ v.t \in {"int", "bool"} /\ v.n = n
    \/ v.t = "float" /\ v.h = 2 * n

\* key == "<text>" for a dict key or operator of any type
StrEq(v, text) == v.t = "str" /\ v.s = text

\* list(d), d.values(), d.items(): in insertion order
\* The list a comprehension builds, held as a tuple.
List(f) == <<>> \o f

DictKeys(d) == List([i \in 1..Len(d.pairs) |-> d.pairs[i][1]])
DictValues(d) == List([i \in 1..Len(d.pairs) |-> d.pairs[i][2]])
DictItems(d) == List([i \in 1..Len(d.pairs) |-> PyTuple(d.pairs[i])])

(***************************************************************************)
(* Outcomes of a call                                                      *)
(***************************************************************************)
Return(v) == [exc |-> "none", msg |-> "", ret |-> v]
Raise(e, m) == [exc |-> e, msg |-> m, ret |-> "-"]
Raised(o) == o.exc # "none"

\* the error class of validate.py
AggregreatTypeError == "AggregreatTypeError"
\* the error class of aggregation_types.py
AggregateTypeError == "AggregateTypeError"

\* `for x in xs: f(x)`: the first call that raises ends the loop
FirstRaise(calls) ==
    LET outs == calls
        raising == {i \in 1..Len(outs) : Raised(outs[i])}
    IN  IF raising # {}
        THEN outs[CHOOSE i \in raising : \A j \in raising : i <= j]
        ELSE Return("None")

(***************************************************************************)
(* validate.py                                                             *)
(***************************************************************************)
RECURSIVE is_valid_condition(_)
RECURSIVE is_valid_bson(_)
RECURSIVE is_valid_criterion(_)
RECURSIVE is_valid_query(_)

\* key and key[0] == "$"
BeginsWithDollar(key) ==
    IsStr(key) /\ Len(key.s) > 0 /\ SubSeq(key.s, 1, 1) = "$"

\* has_dollar_keys without the comparison of lengths: one key beginning with
\* "$" is enough for True
has_dollar_keys_any(dictionary) ==
    LET keys == DictKeys(dictionary)
        non_string_keys == SelectSeq(keys, LAMBDA key : ~IsStr(key))
        dollar_keys == SelectSeq(keys, BeginsWithDollar)
    IN  IF non_string_keys # <<>>
        THEN Raise(AggregreatTypeError, "has_dollar_keys: non-string keys")
        ELSE IF dollar_keys # <<>> THEN Return("True")
        ELSE Return("False")

has_dollar_keys(dictionary) ==
    LET keys == DictKeys(dictionary)
        non_string_keys == SelectSeq(keys, LAMBDA key : ~IsStr(key))
        dollar_keys == SelectSeq(keys, BeginsWithDollar)
    IN  IF non_string_keys # <<>>
        THEN Raise(AggregreatTypeError, "has_dollar_keys: non-string keys")
        ELSE IF dollar_keys # <<>>
             THEN IF Len(dollar_keys) # Len(dictionary.pairs)
                  THEN Raise(AggregreatTypeError, "has_dollar_keys: mixed keys")
                  ELSE Return("True")
             ELSE Return("False")

\* check_not_value without the check on the number of pairs: the first pair
\* of a non-empty dict stands for all of them
check_not_value_first(value) ==
    IF ~IsDict(value)
    THEN Raise(AggregreatTypeError, "$not: not a dict")
    ELSE IF Len(value.pairs) = 0
         THEN Raise(AggregreatTypeError, "$not: not exactly one pair")
         ELSE is_valid_condition(PyTuple(value.pairs[1]))

check_not_value(value) ==
    IF ~IsDict(value)
    THEN Raise(AggregreatTypeError, "$not: not a dict")
    ELSE IF Len(value.pairs) # 1
         THEN Raise(AggregreatTypeError, "$not: not exactly one pair")
         ELSE is_valid_condition(PyTuple(value.pairs[1]))

\* check_elem_value that sends only the first pair to is_valid_condition
check_elem_value_first(value) ==
    IF ~IsDict(value)
    THEN Raise(AggregreatTypeError, "$elemMatch: not a dict")
    ELSE LET dollar == has_dollar_keys(value)
         IN  IF Raised(dollar) THEN dollar
             ELSE IF dollar.ret = "True"
                  THEN is_valid_condition(PyTuple(value.pairs[1]))
                  ELSE is_valid_query(value)

check_elem_value(value) ==
    IF ~IsDict(value)
    THEN Raise(AggregreatTypeError, "$elemMatch: not a dict")
    ELSE LET dollar == has_dollar_keys(value)
         IN  IF Raised(dollar) THEN dollar
             ELSE IF dollar.ret = "True"
                  THEN LET items == DictItems(value)
                       IN  FirstRaise(List([i \in 1..Len(items) |-> is_valid_condition(items[i])]))
                  ELSE is_valid_query(value)

ComparisonOperators == {"$eq", "$ne", "$gt", "$gte", "$lt", "$lte"}
\* the array operators of aggregation_types.ArrayOperator, "$all" included
ArrayOperatorsWithAll == {"$in", "$nin", "$all"}
ArrayOperators == {"$in", "$nin"}

is_valid_condition(condition) ==
    LET key == condition.items[1]
        value == condition.items[2]
    IN  IF StrEq(key, "$exists")
        THEN IF ~IsBool(value)
             THEN Raise(AggregreatTypeError, "$exists: not a bool")
             ELSE Return("None")
        ELSE IF StrEq(key, "$size")
        THEN IF ~IsInt(value)
             THEN Raise(AggregreatTypeError, "$size: not an int")
             ELSE Return("None")
        ELSE IF StrEq(key, "$not") THEN check_not_value(value)
        ELSE IF StrEq(key, "$elemMatch") THEN check_elem_value(value)
        ELSE IF IsStr(key) /\ key.s \in ComparisonOperators
        THEN is_valid_bson(value)
        ELSE IF IsStr(key) /\ key.s \in ArrayOperators
        THEN IF ~IsList(value)
             THEN Raise(AggregreatTypeError, "array operator: not a list")
             ELSE FirstRaise(List([i \in 1..Len(value.items) |-> is_valid_bson(value.items[i])]))
        ELSE Raise(AggregreatTypeError, "unknown operator")

PrimitiveTypes ==
    {"NoneType", "bool", "int", "float", "str", "datetime", "ObjectId"}

\* is_valid_bson that looks at the keys of a dict and not at its values
is_valid_bson_shallow(bson_value) ==
    IF bson_value.t \in PrimitiveTypes THEN Return("None")
    ELSE IF IsList(bson_value)
    THEN FirstRaise(List([i \in 1..Len(bson_value.items) |->
                             is_valid_bson(bson_value.items[i])]))
    ELSE IF IsDict(bson_value)
    THEN LET dollar == has_dollar_keys(bson_value)
         IN  IF Raised(dollar) THEN dollar
             ELSE IF dollar.ret = "True"
                  THEN Raise(AggregreatTypeError, "bson: keys beginning with $")
                  ELSE Return("None")
    ELSE Raise(AggregreatTypeError, "bson: non-valid type")

is_valid_bson(bson_value) ==
    IF bson_value.t \in PrimitiveTypes THEN Return("None")
    ELSE IF IsList(bson_value)
    THEN FirstRaise(List([i \in 1..Len(bson_value.items) |-> is_valid_bson(bson_value.items[i])]))
    ELSE IF IsDict(bson_value)
    THEN LET dollar == has_dollar_keys(bson_value)
             values == DictValues(bson_value)
         IN  IF Raised(dollar) THEN dollar
             ELSE IF dollar.ret = "True"
                  THEN Raise(AggregreatTypeError, "bson: keys beginning with $")
                  ELSE FirstRaise(List([i \in 1..Len(values) |-> is_valid_bson(values[i])]))
    ELSE Raise(AggregreatTypeError, "bson: non-valid type")

is_valid_path(path) ==
    IF ~IsStr(path)
    THEN Raise(AggregreatTypeError, "path: not a string")
    ELSE Return("None")

LogicalOperators == {"$and", "$or", "$nor"}

\* the loop over value.items() returns from the function after its first
\* iteration: only the first pair reaches is_valid_condition
is_valid_criterion(criterion) ==
    LET key == criterion.items[1]
        value == criterion.items[2]
    IN  IF ~IsStr(key)
        THEN Raise(AggregreatTypeError, "criterion: key not a string")
        ELSE IF key.s \in LogicalOperators
        THEN IF ~IsList(value)
             THEN Raise(AggregreatTypeError, "logical operator: not a list")
             ELSE FirstRaise(List([i \in 1..Len(value.items) |-> is_valid_query(value.items[i])]))
        ELSE LET path == is_valid_path(key)
                 dollar == IF IsDict(value) THEN has_dollar_keys(value)
                           ELSE Return("False")
             IN  IF Raised(path) THEN path
                 ELSE IF Raised(dollar) THEN dollar
                 ELSE IF dollar.ret = "True"
                      THEN is_valid_condition(PyTuple(value.pairs[1]))
                      ELSE is_valid_bson(value)

\* is_valid_query that asks has_dollar_keys of the query before its criteria
is_valid_query_key_discipline(query) ==
    IF ~IsDict(query)
    THEN Raise(AggregreatTypeError, "query: not a dict")
    ELSE LET key_value_pairs == DictItems(query)
             dollar == has_dollar_keys(query)
         IN  IF Raised(dollar) THEN dollar
             ELSE FirstRaise(List([i \in 1..Len(key_value_pairs) |-> is_valid_criterion(key_value_pairs[i])]))

is_valid_query(query) ==
    IF ~IsDict(query)
    THEN Raise(AggregreatTypeError, "query: not a dict")
    ELSE LET key_value_pairs == DictItems(query)
         IN  FirstRaise(List([i \in 1..Len(key_value_pairs) |-> is_valid_criterion(key_value_pairs[i])]))

\* path_ref[0] of the empty string raises IndexError
is_valid_path_reference(path_ref) ==
    IF ~IsStr(path_ref)
    THEN Raise(AggregreatTypeError, "path reference: not a string")
    ELSE IF Len(path_ref.s) = 0
    THEN Raise("IndexError", "string index out of range")
    ELSE IF SubSeq(path_ref.s, 1, 1) # "$"
    THEN Raise(AggregreatTypeError, "path reference: no leading $")
    ELSE is_valid_path(PyStr(SubSeq(path_ref.s, 2, Len(path_ref.s))))

UnwindKeys == {"path", "includeArrayIndex", "preserveNullAndEmptyArrays"}

\* one iteration of the loop over unwind_expression.items()
unwind_entry(key, value) ==
    IF ~(IsStr(key) /\ key.s \in UnwindKeys)
    THEN Raise(AggregreatTypeError, "unwind: unrecognized key")
    ELSE IF key.s = "path" THEN is_valid_path_reference(value)
    ELSE IF key.s = "includeArrayIndex" THEN is_valid_path(value)
    ELSE IF ~IsBool(value)
         THEN Raise(AggregreatTypeError, "unwind: not a boolean")
         ELSE Return("None")

\* is_valid_unwind_expression without the seen_path test after the loop
is_valid_unwind_expression_any_keys(unwind_expression) ==
    IF ~IsDict(unwind_expression)
    THEN is_valid_path_reference(unwind_expression)
    ELSE LET pairs == unwind_expression.pairs
         IN  FirstRaise(List([i \in 1..Len(pairs) |-> unwind_entry(pairs[i][1], pairs[i][2])]))

is_valid_unwind_expression(unwind_expression) ==
    IF ~IsDict(unwind_expression)
    THEN is_valid_path_reference(unwind_expression)
    ELSE LET pairs == unwind_expression.pairs
             loop == FirstRaise(List([i \in 1..Len(pairs) |-> unwind_entry(pairs[i][1], pairs[i][2])]))
             seen_path == \E i \in 1..Len(pairs) : StrEq(pairs[i][1], "path")
         IN  IF Raised(loop) THEN loop
             ELSE IF ~seen_path
                  THEN Raise(AggregreatTypeError, "unwind: no path")
                  ELSE Return("None")

is_valid_value_definition(val_def) == Return("None")

\* value in [0, False] and value in [1, True]
IsFalseyFlag(value) == NumEq(value, 0)
IsTruthyFlag(value) == NumEq(value, 1)

\* the loop over projection.items() from entry i on, seen_falsey_value as
\* left by the entries before i
RECURSIVE projection_loop(_, _, _)
projection_loop(pairs, i, seen_falsey_value) ==
    IF i > Len(pairs) THEN Return("None")
    ELSE LET key == pairs[i][1]
             value == pairs[i][2]
             path == is_valid_path(key)
         IN  IF Raised(path) THEN path
             ELSE IF StrEq(key, "_id")
             THEN IF ~IsFalseyFlag(value)
                  THEN Raise(AggregreatTypeError, "projection: bad _id value")
                  ELSE projection_loop(pairs, i + 1, seen_falsey_value)
             ELSE IF IsFalseyFlag(value)
             THEN projection_loop(pairs, i + 1, TRUE)
             ELSE IF IsTruthyFlag(value)
             THEN IF seen_falsey_value
                  THEN Raise(AggregreatTypeError, "projection: mixed flags")
                  ELSE projection_loop(pairs, i + 1, seen_falsey_value)
             ELSE LET def == is_valid_value_definition(value)
                  IN  IF Raised(def) THEN def
                      ELSE projection_loop(pairs, i + 1, seen_falsey_value)

is_valid_projection(projection) ==
    IF ~IsDict(projection)
    THEN Raise(AggregreatTypeError, "projection: not a dict")
    ELSE projection_loop(projection.pairs, 1, FALSE)

ValidStageTypes == {"$match", "$unwind", "$project"}

is_valid_stage_type(stage_type) ==
    IF ~(IsStr(stage_type) /\ stage_type.s \in ValidStageTypes)
    THEN Raise(AggregreatTypeError, "stage: not a valid stage-type")
    ELSE Return("None")

\* is_valid_stage that looks at the stage-type of the first pair before it
\* counts the pairs
is_valid_stage_tag_first(stage) ==
    IF ~IsDict(stage)
    THEN Raise(AggregreatTypeError, "stage: not a dict")
    ELSE IF Len(stage.pairs) > 0
            /\ Raised(is_valid_stage_type(stage.pairs[1][1]))
    THEN is_valid_stage_type(stage.pairs[1][1])
    ELSE IF Len(stage.pairs) # 1
    THEN Raise(AggregreatTypeError, "stage: not exactly one pair")
    ELSE LET stage_type == stage.pairs[1][1]
             stage_spec == stage.pairs[1][2]
         IN  IF stage_type.s = "$match" THEN is_valid_query(stage_spec)
             ELSE IF stage_type.s = "$unwind"
                  THEN is_valid_unwind_expression(stage_spec)
             ELSE is_valid_projection(stage_spec)

is_valid_stage(stage) ==
    IF ~IsDict(stage)
    THEN Raise(AggregreatTypeError, "stage: not a dict")
    ELSE IF Len(stage.pairs) # 1
    THEN Raise(AggregreatTypeError, "stage: not exactly one pair")
    ELSE LET stage_type == stage.pairs[1][1]
             stage_spec == stage.pairs[1][2]
             tag == is_valid_stage_type(stage_type)
         IN  IF Raised(tag) THEN tag
             ELSE IF stage_type.s = "$match" THEN is_valid_query(stage_spec)
             ELSE IF stage_type.s = "$unwind"
                  THEN is_valid_unwind_expression(stage_spec)
             ELSE is_valid_projection(stage_spec)

\* a loop over the stages that goes on after an invalid stage and keeps the
\* error of the last one
RECURSIVE pipeline_loop_last_error(_, _)
pipeline_loop_last_error(stages, i) ==
    IF i > Len(stages) THEN [result |-> Return("True"), seen |-> i - 1]
    ELSE LET r == is_valid_stage(stages[i])
             rest == pipeline_loop_last_error(stages, i + 1)
         IN  IF Raised(rest.result) THEN rest
             ELSE IF Raised(r) THEN [result |-> r, seen |-> Len(stages)]
             ELSE rest

\* the loop over the stages from stage i on; `seen` counts the stages handed
\* to is_valid_stage
RECURSIVE pipeline_loop(_, _)
pipeline_loop(stages, i) ==
    IF i > Len(stages) THEN [result |-> Return("True"), seen |-> i - 1]
    ELSE LET r == is_valid_stage(stages[i])
         IN  IF Raised(r) THEN [result |-> r, seen |-> i]
             ELSE pipeline_loop(stages, i + 1)

is_valid_pipeline_run(pipeline) ==
    IF ~IsList(pipeline)
    THEN [result |-> Raise(AggregreatTypeError, "pipeline: not a list"),
          seen |-> 0]
    ELSE pipeline_loop(pipeline.items, 1)

is_valid_pipeline(pipeline) == is_valid_pipeline_run(pipeline).result

(***************************************************************************)
(* aggregation_types.py: the validating classes.  An instance is a value   *)
(* whose tag t is its class and whose field value is what the setter       *)
(* stored in self._value; a constructor returns the instance or raises.    *)
(* The classes are modelled as loaded: the annotation of Stage's setter    *)
(* (Mapping[str: Mapping]) is evaluated when the module is imported and    *)
(* raises TypeError there on CPython 3.11; the model is of the classes     *)
(* with that annotation read as Mapping[str, Mapping].                     *)
(***************************************************************************)
RECURSIVE BSONvalue(_)
RECURSIVE Condition(_)
RECURSIVE Criterion(_)
RECURSIVE Query(_)
RECURSIVE getter(_, _)

Instance(cls, v) == [t |-> cls, value |-> v]
\* the instances a comprehension of constructor calls collected
Made(outs) == List([i \in 1..Len(outs) |-> outs[i].ret])

\* test(value, ag_type): the instance, or False when the constructor raised
\* AggregateTypeError
test(made) == IF made.exc = AggregateTypeError THEN PyBool(FALSE) ELSE made.ret

check_pair(pair) ==
    IF pair.t # "tuple"
    THEN Raise(AggregateTypeError, "pair: not a tuple")
    ELSE IF Len(pair.items) # 2
    THEN Raise(AggregateTypeError, "pair: not of length 2")
    ELSE Return("None")

enum_setter(val, enums, cls) ==
    IF ~(IsStr(val) /\ val.s \in enums)
    THEN Raise(AggregateTypeError, "enum: not one of the operators")
    ELSE Return(Instance(cls, val))

BSONprimitive(val) ==
    IF val.t \notin PrimitiveTypes
    THEN Raise(AggregateTypeError, "BSONprimitive: no bson-equivalent type")
    ELSE Return(Instance("BSONprimitive", val))

\* what a comprehension of constructor calls leaves: the exception of the
\* first call that raises, or the list of the instances made
Collected(calls) ==
    IF Raised(FirstRaise(calls)) THEN FirstRaise(calls) ELSE Return(Made(calls))

BSONobject(val) ==
    IF ~IsDict(val)
    THEN Raise(AggregateTypeError, "BSONobject: not a dict")
    ELSE LET keys == DictKeys(val)
             values == DictValues(val)
             bad_keys == SelectSeq(keys, LAMBDA key : ~IsStr(key))
             store(made) ==
                 IF Raised(made) THEN made
                 ELSE Return(Instance("BSONobject",
                         PyDict(List([i \in 1..Len(keys) |->
                                          <<keys[i], made.ret[i]>>]))))
         IN  IF bad_keys # <<>>
             THEN Raise(AggregateTypeError, "BSONobject: non-string keys")
             ELSE store(Collected(List([i \in 1..Len(values) |->
                                            BSONvalue(values[i])])))

BSONarray(val) ==
    IF ~IsList(val)
    THEN Raise(AggregateTypeError, "BSONarray: not a list")
    ELSE LET store(made) ==
                 IF Raised(made) THEN made
                 ELSE Return(Instance("BSONarray", PyList(made.ret)))
         IN  store(Collected(List([i \in 1..Len(val.items) |->
                                       BSONvalue(val.items[i])])))

\* the first of BSONarray, BSONobject, BSONprimitive that does not raise
\* AggregateTypeError
BSONvalue(val) ==
    LET store(array, object, primitive) ==
            IF ~Raised(array) THEN Return(Instance("BSONvalue", array.ret))
            ELSE IF array.exc # AggregateTypeError THEN array
            ELSE IF ~Raised(object) THEN Return(Instance("BSONvalue", object.ret))
            ELSE IF object.exc # AggregateTypeError THEN object
            ELSE IF ~Raised(primitive)
            THEN Return(Instance("BSONvalue", primitive.ret))
            ELSE IF primitive.exc # AggregateTypeError THEN primitive
            ELSE Raise(AggregateTypeError,
                       "BSONvalue: cannot be mapped to a bson type")
    IN  store(BSONarray(val), BSONobject(val), BSONprimitive(val))

ComparisonOperator(val) ==
    enum_setter(val, {"$eq", "$ne", "$gt", "$gte", "$lt", "$lte"},
                "ComparisonOperator")

ArrayOperator(val) == enum_setter(val, {"$in", "$nin", "$all"}, "ArrayOperator")

LogicalOperator(val) ==
    enum_setter(val, {"$and", "$not", "$or"}, "LogicalOperator")

Condition(val) ==
    IF Raised(check_pair(val)) THEN check_pair(val)
    ELSE LET k == val.items[1]
             v == val.items[2]
             cop == test(ComparisonOperator(k))
             aop == test(ArrayOperator(k))
             store(key, made) ==
                 IF Raised(made) THEN made
                 ELSE Return(Instance("Condition", PyTuple(<<key, made.ret>>)))
             store_list(made) ==
                 IF Raised(made) THEN made
                 ELSE Return(Instance("Condition",
                                      PyTuple(<<k, PyList(made.ret)>>)))
         IN  IF StrEq(k, "$exists")
             THEN IF ~IsBool(v)
                  THEN Raise(AggregateTypeError, "$exists: not a boolean")
                  ELSE Return(Instance("Condition", val))
             ELSE IF StrEq(k, "$size")
             THEN IF ~IsInt(v)
                  THEN Raise(AggregateTypeError, "$size: not an integer")
                  ELSE Return(Instance("Condition", val))
             ELSE IF StrEq(k, "$not")
             THEN IF ~IsDict(v)
                  THEN Raise(AggregateTypeError, "$not: not a dict")
                  ELSE store_list(Collected(List([i \in 1..Len(v.pairs) |->
                                      Condition(PyTuple(v.pairs[i]))])))
             ELSE IF StrEq(k, "$elemMatch") THEN store(k, Query(v))
             ELSE IF cop # PyBool(FALSE) THEN store(cop, BSONvalue(v))
             ELSE IF aop # PyBool(FALSE) THEN store(aop, BSONarray(v))
             ELSE Raise(AggregateTypeError, "condition: not of the correct form")

\* item[0] == "$" for every key of the body: the empty key has no item[0]
Criterion(val) ==
    IF Raised(check_pair(val)) THEN check_pair(val)
    ELSE LET k == val.items[1]
             v == val.items[2]
             lop == test(LogicalOperator(k))
             v_keys == DictKeys(v)
             bad_keys == SelectSeq(v_keys, LAMBDA key : ~IsStr(key))
             operator_keys ==
                 SelectSeq(v_keys, LAMBDA item : SubSeq(item.s, 1, 1) = "$")
             store(key, made) ==
                 IF Raised(made) THEN made
                 ELSE Return(Instance("Criterion", PyTuple(<<key, made.ret>>)))
             store_list(key, made) ==
                 IF Raised(made) THEN made
                 ELSE Return(Instance("Criterion",
                                      PyTuple(<<key, PyList(made.ret)>>)))
         IN  IF ~IsStr(k)
             THEN Raise(AggregateTypeError, "criterion: key not a string")
             ELSE IF lop # PyBool(FALSE)
             THEN IF ~IsList(v)
                  THEN Raise(AggregateTypeError, "logical operator: not a list")
                  ELSE store_list(lop, Collected(List([i \in 1..Len(v.items) |->
                                           Query(v.items[i])])))
             ELSE IF IsDict(v) /\ bad_keys # <<>>
             THEN Raise(AggregateTypeError, "criterion: non-string keys")
             ELSE IF IsDict(v) /\ \E i \in 1..Len(v_keys) : Len(v_keys[i].s) = 0
             THEN Raise("IndexError", "string index out of range")
             ELSE IF IsDict(v) /\ v_keys # <<>>
                     /\ Len(operator_keys) = Len(v_keys)
             THEN store_list(k, Collected(List([i \in 1..Len(v.pairs) |->
                                     Condition(PyTuple(v.pairs[i]))])))
             ELSE IF IsDict(v) /\ operator_keys # <<>>
             THEN Raise(AggregateTypeError, "criterion: mixed keys")
             ELSE store(k, BSONvalue(v))

\* self._value is a set of Criterion instances, hashed by identity; its
\* items are held in the order they were added
Query(val) ==
    IF ~IsDict(val)
    THEN Raise(AggregateTypeError, "query: not a dict")
    ELSE LET store(made) ==
                 IF Raised(made) THEN made
                 ELSE Return(Instance("Query",
                                      [t |-> "set", items |-> made.ret]))
         IN  store(Collected(List([i \in 1..Len(val.pairs) |->
                                       Criterion(PyTuple(val.pairs[i]))])))

Stage(val) ==
    IF ~IsDict(val)
    THEN Raise(AggregateTypeError, "stage: not a dict")
    ELSE IF Len(val.pairs) # 1
    THEN Raise(AggregateTypeError, "stage: not exactly one pair")
    ELSE LET k == val.pairs[1][1]
             v == val.pairs[1][2]
             store(query) ==
                 IF Raised(query) THEN query
                 ELSE Return(Instance("Stage", PyDict(<< <<k, query.ret>> >>)))
         IN  IF StrEq(k, "$match") THEN store(Query(v))
             ELSE Raise("NotImplementedError", "unsupported stage type")

\* the order in which a set of n instances is iterated: instances hash by
\* identity, so the order is any one; order numbers 0..5 give every
\* permutation of up to three elements (a rotation, reversed when odd)
IterOrder(items, order) ==
    LET n == Len(items)
        rot == IF n = 0 THEN 0 ELSE (order \div 2) % n
        rotated == List([i \in 1..n |-> items[((i - 1 + rot) % n) + 1]])
    IN  IF order % 2 = 1 THEN List([i \in 1..n |-> rotated[n + 1 - i]]) ELSE rotated

\* the `value` property of an instance: the raw value it stands for
getter(self, order) ==
    IF self.t = "BSONprimitive" THEN self.value
    ELSE IF self.t = "BSONobject"
    THEN PyDict(List([i \in 1..Len(self.value.pairs) |-> <<self.value.pairs[i][1],
                      getter(self.value.pairs[i][2], order)>>]))
    ELSE IF self.t = "BSONarray"
    THEN PyList(List([i \in 1..Len(self.value.items) |-> getter(self.value.items[i], order)]))
    ELSE IF self.t = "BSONvalue" THEN getter(self.value, order)
    ELSE IF self.t \in {"ComparisonOperator", "ArrayOperator", "LogicalOperator"}
    THEN self.value
    ELSE IF self.t = "Condition"
    THEN LET key == self.value.items[1]
             val == self.value.items[2]
         IN  IF StrEq(key, "$exists") \/ StrEq(key, "$size") THEN self.value
             ELSE IF StrEq(key, "$elemMatch")
             THEN PyTuple(<<PyStr("$elemMatch"), getter(val, order)>>)
             ELSE IF StrEq(key, "$not")
             THEN PyTuple(<<PyStr("$not"),
                            PyDict(List([i \in 1..Len(val.items) |-> getter(val.items[i], order).items]))>>)
             ELSE PyTuple(<<getter(key, order), getter(val, order)>>)
    ELSE IF self.t = "Criterion"
    THEN LET key == self.value.items[1]
             val == self.value.items[2]
         IN  IF key.t = "LogicalOperator"
             THEN PyTuple(<<getter(key, order),
                            PyList(List([i \in 1..Len(val.items) |-> getter(val.items[i], order)]))>>)
             ELSE IF val.t = "BSONvalue"
             THEN PyTuple(<<key, getter(val, order)>>)
             ELSE PyTuple(<<key,
                            PyDict(List([i \in 1..Len(val.items) |-> getter(val.items[i], order).items]))>>)
    ELSE IF self.t = "Query"
    THEN LET criteria == IterOrder(self.value.items, order)
         IN  PyDict(List([i \in 1..Len(criteria) |-> getter(criteria[i], order).items]))
    ELSE \* Stage
         LET key == self.value.pairs[1][1]
             val == self.value.pairs[1][2]
         IN  PyDict(<< <<key, getter(val, order)>> >>)

(***************************************************************************)
(* pipeline.py                                                             *)
(***************************************************************************)
\* bool(v) of `stages or []`
Truthy(v) ==
    IF v.t = "NoneType" THEN FALSE
    ELSE IF v.t \in {"int", "bool"} THEN v.n # 0
    ELSE IF v.t = "float" THEN v.h # 0
    ELSE IF v.t = "str" THEN Len(v.s) > 0
    ELSE IF v.t \in {"list", "tuple"} THEN Len(v.items) > 0
    ELSE IF v.t = "dict" THEN Len(v.pairs) > 0
    ELSE TRUE

\* what `for stage in stages` yields
Iterable(v) == v.t \in {"list", "tuple", "dict", "str"}
Iterate(v) ==
    IF v.t \in {"list", "tuple"} THEN v.items
    ELSE IF v.t = "dict" THEN DictKeys(v)
    ELSE List([i \in 1..Len(v.s) |-> PyStr(SubSeq(v.s, i, i))])

\* the stages setter: self._stages = [Stage(stage) for stage in stages]
stages_setter(stages) ==
    IF ~Iterable(stages) THEN Raise("TypeError", "object is not iterable")
    ELSE LET items == Iterate(stages)
             store(made) ==
                 IF Raised(made) THEN made
                 ELSE Return(Instance("Pipeline", PyList(made.ret)))
         IN  store(Collected(List([i \in 1..Len(items) |-> Stage(items[i])])))

\* Pipeline(stages): __init__ sets self.stages = stages or []
Pipeline(stages) ==
    LET given == IF Truthy(stages) THEN stages ELSE PyList(<<>>)
    IN  stages_setter(given)

\* the stages property: [stage.value for stage in self._stages]
stages_getter(self, order) ==
    PyList(List([i \in 1..Len(self.value.items) |-> getter(self.value.items[i], order)]))

pop(self, order) == stages_getter(self, order)

\* _add_stage
add_stage(self, stage, order) ==
    LET stages == PyList(stages_getter(self, order).items \o <<stage>>)
    IN  Pipeline(stages)

match(self, query, order) ==
    LET stage == PyDict(<< <<PyStr("$match"), query>> >>)
    IN  add_stage(self, stage, order)

(***************************************************************************)
(* Python's == on raw values: numbers by value, lists item by item, dicts  *)
(* as sets of entries, whatever their order                                *)
(***************************************************************************)
IsNumber(v) == v.t \in {"int", "bool", "float"}
Halves(v) == IF v.t = "float" THEN v.h ELSE 2 * v.n

RECURSIVE PyEq(_, _)
PyEq(a, b) ==
    IF IsNumber(a) /\ IsNumber(b) THEN Halves(a) = Halves(b)
    ELSE IF a.t # b.t THEN FALSE
    ELSE IF a.t \in {"list", "tuple"}
    THEN /\ Len(a.items) = Len(b.items)
         /\ \A i \in 1..Len(a.items) : PyEq(a.items[i], b.items[i])
    ELSE IF a.t = "dict"
    THEN /\ Len(a.pairs) = Len(b.pairs)
         /\ \A i \in 1..Len(a.pairs) : \E j \in 1..Len(b.pairs) :
                /\ PyEq(a.pairs[i][1], b.pairs[j][1])
                /\ PyEq(a.pairs[i][2], b.pairs[j][2])
    ELSE a = b

(***************************************************************************)
(* Bounds and the inputs drawn within them                                 *)
(***************************************************************************)
\* entries of a generated dict, items of a generated list
MaxLen == 2
\* entries of a generated projection or key-discipline dict
MaxFields == 3
\* stages of a generated pipeline
MaxStages == 2

\* the sequences over S of length n, then of length up to n
RECURSIVE SeqsOfLen(_, _)
SeqsOfLen(S, n) ==
    IF n = 0 THEN {<<>>}
    ELSE {Append(s, x) : s \in SeqsOfLen(S, n - 1), x \in S}
Seqs(S, n) == UNION {SeqsOfLen(S, m) : m \in 0..n}
ListsOf(S, n) == {PyList(s) : s \in Seqs(S, n)}
\* the entry sequences of n entries with distinct keys in K and values in V,
\* in every insertion order
RECURSIVE PairSeqs(_, _, _)
PairSeqs(K, V, n) ==
    IF n = 0 THEN {<<>>}
    ELSE {q \in {Append(s, <<k, v>>) : s \in PairSeqs(K, V, n - 1), k \in K, v \in V} :
             \A i \in 1..(n - 1) : q[i][1] # q[n][1]}
DictsOf(K, V, n) == {PyDict(s) : s \in UNION {PairSeqs(K, V, m) : m \in 0..n}}
Strs(texts) == {PyStr(x) : x \in texts}
Obj1(k, v) == PyDict(<< <<PyStr(k), v>> >>)
Obj2(k1, v1, k2, v2) == PyDict(<< <<PyStr(k1), v1>>, <<PyStr(k2), v2>> >>)
Pair(k, v) == PyTuple(<<PyStr(k), v>>)

Scalars ==
    {PyNone, PyBool(TRUE), PyBool(FALSE), PyInt(0), PyInt(1), PyInt(2),
     PyFloat(5), PyFloat(0), PyStr("dog"), PyStr(""), PyDatetime, PyObjectId,
     PyDate, PyTuple(<<>>)}

\* key discipline
KeyChoices == Strs({"$a", "$b", "b", ""}) \cup {PyInt(3)}
KeyDicts == DictsOf(KeyChoices, {PyInt(1)}, MaxFields)

\* document values
BsonKeys == Strs({"a", "", "$x"}) \cup {PyInt(3)}
BsonLeaves == {PyInt(1), PyDate}
BsonItems ==
    BsonLeaves \cup
    {PyList(<<PyDate>>), Obj1("a", PyInt(1)), Obj1("$x", PyInt(1)),
     PyDict(<< <<PyInt(3), PyInt(1)>> >>)}
BsonNested ==
    ListsOf(BsonLeaves, MaxLen) \cup DictsOf(BsonKeys, BsonLeaves, MaxLen)
BsonInputs ==
    Scalars \cup ListsOf(BsonItems, MaxLen) \cup DictsOf(BsonKeys, BsonItems, MaxLen)
    \cup {PyList(<<v>>) : v \in BsonNested}
    \cup {Obj1("a", v) : v \in BsonNested}
    \cup {PyList(<<Obj1("a", PyList(<<v>>))>>) : v \in BsonNested}

\* conditions
Operators ==
    {"$exists", "$size", "$not", "$elemMatch", "$eq", "$ne", "$gt", "$gte",
     "$lt", "$lte", "$in", "$nin", "$all", "$and", "$or", "$bogus", "a"}
SimpleOperands ==
    {PyBool(TRUE), PyInt(1), PyStr("not-a-list"), PyDate, PyList(<<>>),
     PyList(<<PyInt(1), PyStr("dog")>>), PyList(<<PyInt(1), PyDate>>),
     PyList(<<Obj1("$x", PyInt(1))>>), PyDict(<<>>), Obj1("a", PyInt(1)),
     Obj1("$x", PyInt(1))}
SimpleConditions ==
    {Pair(op, v) : op \in Operators, v \in SimpleOperands}
    \cup {PyTuple(<<PyInt(3), PyInt(1)>>)}
\* dicts of conditions: "$size" and "$gt" are valid with 2 and not with a
\* date, "$bogus" is no operator, "a" is a plain key
CondKeys == Strs({"$size", "$gt", "$bogus", "a"})
CondVals == {PyInt(2), PyDate}
ConditionDicts == DictsOf(CondKeys, CondVals, MaxLen)
NotOperands ==
    SimpleOperands \cup ConditionDicts
    \cup {Obj1("$not", d) : d \in ConditionDicts}
    \cup {Obj1("$not", Obj1("$not", d)) : d \in ConditionDicts}
    \cup {Obj2("$not", d, "$size", PyInt(2)) : d \in ConditionDicts}
ElemOperands ==
    ConditionDicts
    \cup {Obj1("c", d) : d \in ConditionDicts}
    \cup {Obj1("$and", PyList(<<Obj1("c", PyInt(1))>>)),
          Obj1("$elemMatch", Obj1("$gt", PyInt(1)))}
ConditionInputs ==
    SimpleConditions \cup {Pair("$not", v) : v \in NotOperands}
    \cup {Pair("$elemMatch", v) : v \in ElemOperands}

\* queries and criteria
FieldBodies == BsonItems \cup ConditionDicts \cup {Obj1("$not", Obj1("$size", PyInt(2)))}
SmallQueries ==
    {PyDict(<<>>), Obj1("a", PyInt(1)), Obj1("a", PyDate),
     Obj1("a", Obj1("$gt", PyInt(1))), Obj1("a", Obj1("$bogus", PyInt(1))),
     Obj1("$x", PyInt(1)), Obj1("a", Obj1("", PyInt(1))), PyInt(5)}
LogicalBodies == ListsOf(SmallQueries, MaxLen) \cup {PyInt(1), PyDict(<<>>)}
LogicalKeys == {"$and", "$or", "$nor", "$not"}
CriterionInputs ==
    {Pair("a", v) : v \in FieldBodies}
    \cup {Pair(k, v) : k \in LogicalKeys, v \in LogicalBodies}
    \cup {PyTuple(<<PyInt(3), PyInt(1)>>), Pair("", PyInt(1))}
QueryInputs ==
    SmallQueries \cup Scalars
    \cup {Obj1("a", v) : v \in FieldBodies}
    \cup {Obj2("a", v, "b", w) : v \in ConditionDicts, w \in {PyInt(1), PyDate}}
    \cup {Obj2("b", w, "a", v) : v \in ConditionDicts, w \in {PyInt(1), PyDate}}
    \cup {Obj1(k, v) : k \in LogicalKeys, v \in LogicalBodies}
    \cup {Obj2("a", PyInt(1), k, PyList(<<q>>)) : k \in LogicalKeys, q \in SmallQueries}
    \cup {Obj1("$or", PyList(<<Obj1("$nor", PyList(<<q>>))>>)) : q \in SmallQueries}

\* unwind expressions and paths
PathInputs ==
    Strs({"", "$", "$tags", "tags", "$a.b"}) \cup {PyInt(1), PyNone, PyList(<<>>)}
UnwindKeyChoices ==
    Strs({"path", "includeArrayIndex", "preserveNullAndEmptyArrays", "bogus"})
UnwindValues == Strs({"$tags", "$", "idx", ""}) \cup {PyBool(TRUE), PyInt(1)}
UnwindInputs ==
    PathInputs \cup DictsOf(UnwindKeyChoices, UnwindValues, MaxLen)
    \cup {PyDict(<< <<PyInt(3), PyInt(1)>> >>)}

\* projections
ProjKeys == Strs({"_id", "name", "email", "age"})
ProjFlags == {PyInt(0), PyInt(1), PyBool(TRUE), PyStr("$x")}
ProjectionInputs ==
    DictsOf(ProjKeys, ProjFlags, MaxFields)
    \cup DictsOf(Strs({"_id", "name"}),
                 {PyBool(FALSE), PyFloat(0), PyInt(2), PyNone, PyDict(<<>>)}, MaxLen)
    \cup {PyDict(<< <<PyInt(3), PyInt(1)>> >>), PyList(<<>>), PyInt(1), PyStr("name")}

\* queries on which the operators of aggregation_types and of validate differ
GrammarQueries ==
    {Obj1("a", Obj1("$all", PyList(<<PyInt(1)>>))),
     Obj1("a", Obj1("$not", Obj2("$size", PyInt(2), "$gt", PyInt(2)))),
     Obj1("a", Obj1("$elemMatch", Obj1("$gt", PyInt(1)))),
     Obj1("a", Obj1("$elemMatch", Obj2("$gt", PyInt(1), "$bogus", PyInt(1)))),
     Obj1("a", Obj1("$elemMatch", Obj1("c", PyInt(1)))),
     Obj1("a", Obj1("b", Obj1("$x", PyInt(1)))),
     Obj1("a", PyList(<<Obj1("$x", PyInt(1))>>)),
     Obj1("a", Obj1("$size", PyBool(TRUE))),
     Obj1("a", Obj1("$in", PyList(<<PyInt(1)>>))),
     Obj1("a", Obj1("$in", PyInt(5))),
     Obj1("a", Obj2("$gt", PyInt(1), "b", PyInt(1)))}

\* stages
StageKeys == Strs({"$match", "$unwind", "$project", "$sort"}) \cup {PyInt(3)}
StageOperands ==
    {PyDict(<<>>), Obj1("a", PyDate), PyStr("$a"), PyStr(""),
     Obj1("path", PyStr("$a")), Obj1("path", PyStr("")), Obj1("_id", PyInt(1)),
     Obj1("a", Obj2("$gt", PyInt(1), "$bogus", PyInt(1))),
     Obj1("a", Obj1("", PyInt(1))), Obj2("name", PyInt(1), "email", PyInt(0)),
     PyInt(5)}
StageInputs ==
    DictsOf(StageKeys, StageOperands, 1)
    \cup DictsOf(StageKeys, {PyDict(<<>>), PyStr("")}, MaxLen)
    \cup {Obj1("$match", q) : q \in QueryInputs \cup GrammarQueries}
    \cup Scalars
    \cup {PyTuple(<<PyStr("$match"), Obj1("someField", PyBool(TRUE))>>),
          PyList(<<Obj1("$match", PyDict(<<>>))>>)}

\* pipelines
PipelineStages ==
    {Obj1("$match", PyDict(<<>>)), Obj1("$match", Obj1("a", PyInt(1))),
     Obj1("$match", Obj1("a", PyDate)), Obj1("$match", PyInt(5)),
     Obj1("$unwind", PyStr("$a")), Obj1("$unwind", PyStr("")),
     Obj1("$unwind", Obj1("path", PyStr(""))), Obj1("$unwind", PyStr("a")),
     Obj1("$project", Obj2("_id", PyInt(0), "name", PyInt(1))),
     Obj1("$project", Obj1("_id", PyInt(1))),
     Obj1("$sort", Obj1("created", PyInt(1))),
     PyDict(<<>>), PyDict(<< <<PyInt(3), PyInt(1)>> >>),
     PyTuple(<<PyStr("$match"), PyDict(<<>>)>>)}
PipelineInputs ==
    ListsOf(PipelineStages, MaxStages)
    \cup {PyList(<<s>>) : s \in StageInputs}
    \cup Scalars
    \cup {Obj1("$match", Obj1("someField", PyBool(TRUE))),
          PyTuple(<<Obj1("$match", PyDict(<<>>))>>)}

IsPair(v) == v.t = "tuple" /\ Len(v.items) = 2

(***************************************************************************)
(* The validators as a state machine: the argument is drawn from one of    *)
(* the input families, then one of the functions that take such an         *)
(* argument is applied to it.  fn is the function applied ("none" before   *)
(* the call), out its outcome, examined the number of stages the pipeline  *)
(* loop handed to is_valid_stage.                                          *)
(***************************************************************************)
Families ==
    {"keys", "bson", "condition", "criterion", "query", "path", "unwind",
     "projection", "stage", "pipeline"}

FamilyInputs(f) ==
    CASE f = "keys" -> KeyDicts
      [] f = "bson" -> BsonInputs
      [] f = "condition" -> ConditionInputs
      [] f = "criterion" -> CriterionInputs
      [] f = "query" -> QueryInputs
      [] f = "path" -> PathInputs
      [] f = "unwind" -> UnwindInputs
      [] f = "projection" -> ProjectionInputs
      [] f = "stage" -> StageInputs
      [] f = "pipeline" -> PipelineInputs

NoOutcome == Return("-")
NoPipes == <<>>

Init ==
    /\ \E f \in Families : family = f /\ arg \in FamilyInputs(f)
    /\ fn = "none"
    /\ out = NoOutcome
    /\ examined = 0
    /\ pipes = NoPipes
    /\ recv = 0
    /\ popped = PyNone

\* fn(arg) is called and its outcome recorded
Call(name, outcome) ==
    /\ fn = "none"
    /\ fn' = name
    /\ out' = outcome
    /\ UNCHANGED <<family, arg, examined, pipes, recv, popped>>

call_has_dollar_keys ==
    /\ IsDict(arg)
    /\ family \in {"keys", "bson", "query"}
    /\ Call("has_dollar_keys", has_dollar_keys(arg))

call_is_valid_bson ==
    /\ family = "bson"
    /\ Call("is_valid_bson", is_valid_bson(arg))

call_is_valid_condition ==
    /\ family = "condition"
    /\ IsPair(arg)
    /\ Call("is_valid_condition", is_valid_condition(arg))

call_is_valid_criterion ==
    /\ family = "criterion"
    /\ IsPair(arg)
    /\ Call("is_valid_criterion", is_valid_criterion(arg))

call_is_valid_query ==
    /\ family = "query"
    /\ Call("is_valid_query", is_valid_query(arg))

call_is_valid_path ==
    /\ family = "path"
    /\ Call("is_valid_path", is_valid_path(arg))

call_is_valid_path_reference ==
    /\ family = "path"
    /\ Call("is_valid_path_reference", is_valid_path_reference(arg))

call_is_valid_unwind_expression ==
    /\ family = "unwind"
    /\ Call("is_valid_unwind_expression", is_valid_unwind_expression(arg))

call_is_valid_projection ==
    /\ family = "projection"
    /\ Call("is_valid_projection", is_valid_projection(arg))

call_is_valid_stage ==
    /\ family = "stage"
    /\ Call("is_valid_stage", is_valid_stage(arg))

call_is_valid_pipeline ==
    /\ family = "pipeline"
    /\ fn = "none"
    /\ fn' = "is_valid_pipeline"
    /\ out' = is_valid_pipeline(arg)
    /\ examined' = is_valid_pipeline_run(arg).seen
    /\ UNCHANGED <<family, arg, pipes, recv, popped>>

\* the typed constructor on the same stages
call_Stage ==
    /\ family = "stage"
    /\ Call("Stage", Stage(arg))

Next ==
    \/ call_has_dollar_keys
    \/ call_is_valid_bson
    \/ call_is_valid_condition
    \/ call_is_valid_criterion
    \/ call_is_valid_query
    \/ call_is_valid_path
    \/ call_is_valid_path_reference
    \/ call_is_valid_unwind_expression
    \/ call_is_valid_projection
    \/ call_is_valid_stage
    \/ call_is_valid_pipeline
    \/ call_Stage

Spec == Init /\ [][Next]_vars

(***************************************************************************)
(* Properties of the validators                                            *)
(***************************************************************************)
\* the indices of the stages of a list that is_valid_stage rejects
InvalidStages(pipeline) ==
    IF IsList(pipeline)
    THEN {i \in 1..Len(pipeline.items) : Raised(is_valid_stage(pipeline.items[i]))}
    ELSE {}

\* C1: is_valid_pipeline(p) returns True exactly when p is a list all of
\* whose elements pass is_valid_stage; a non-list raises AggregreatTypeError;
\* a list with an invalid stage raises the error of the first invalid stage
\* in list order, and no stage after that one is examined.
C1_is_valid_pipeline ==
    fn = "is_valid_pipeline" =>
        /\ (out = Return("True")) <=> (IsList(arg) /\ InvalidStages(arg) = {})
        /\ ~IsList(arg) => out.exc = AggregreatTypeError /\ examined = 0
        /\ \A first \in InvalidStages(arg) :
               (\A j \in InvalidStages(arg) : first <= j) =>
                   /\ out = is_valid_stage(arg.items[first])
                   /\ examined = first
        /\ out = Return("True") => examined = Len(arg.items)

\* two invalid stages with different errors: the first one's error is raised
C1_witness ==
    /\ fn = "is_valid_pipeline"
    /\ arg = PyList(<<Obj1("$match", PyInt(5)), PyDict(<<>>)>>)
    /\ out = Raise(AggregreatTypeError, "query: not a dict")
    /\ examined = 1

\* C2: is_valid_stage(s) succeeds only if s is a dict with exactly one entry
\* whose key is "$match", "$unwind" or "$project" and whose value passes
\* is_valid_query, is_valid_unwind_expression, is_valid_projection
\* respectively; a non-dict, a dict with no entry or with two or more, and
\* a single-entry dict with another key are rejected with
\* AggregreatTypeError; the number of entries is checked before the key.
C2_is_valid_stage ==
    fn = "is_valid_stage" =>
        LET single == IsDict(arg) /\ Len(arg.pairs) = 1
            key == arg.pairs[1][1]
            value == arg.pairs[1][2]
            tagged == /\ single
                      /\ IsStr(key)
                      /\ key.s \in {"$match", "$unwind", "$project"}
        IN  /\ ~Raised(out) =>
                /\ tagged
                /\ key.s = "$match" => ~Raised(is_valid_query(value))
                /\ key.s = "$unwind" =>
                       ~Raised(is_valid_unwind_expression(value))
                /\ key.s = "$project" => ~Raised(is_valid_projection(value))
            /\ ~tagged => out.exc = AggregreatTypeError
            /\ (IsDict(arg) /\ Len(arg.pairs) # 1) =>
                   out = Raise(AggregreatTypeError, "stage: not exactly one pair")

\* a dict of two entries whose first key is no stage type: rejected for its
\* number of entries
C2_witness ==
    /\ fn = "is_valid_stage"
    /\ IsDict(arg)
    /\ Len(arg.pairs) = 2
    /\ arg.pairs[1][1] = PyStr("$sort")
    /\ out = Raise(AggregreatTypeError, "stage: not exactly one pair")

\* a criterion whose key is a field path and whose body is a non-empty
\* mapping with only keys beginning with "$"
IsConditionCriterion(criterion) ==
    LET key == criterion.items[1]
        body == criterion.items[2]
    IN  /\ IsStr(key)
        /\ key.s \notin {"$and", "$or", "$nor"}
        /\ IsDict(body)
        /\ Len(body.pairs) > 0
        /\ \A i \in 1..Len(body.pairs) :
               /\ IsStr(body.pairs[i][1])
               /\ Len(body.pairs[i][1].s) > 0
               /\ SubSeq(body.pairs[i][1].s, 1, 1) = "$"

\* C3: for a criterion (key, body) whose key is a field path and whose body
\* is a non-empty mapping with only operator keys, is_valid_criterion
\* accepts the criterion only if every entry of body passes
\* is_valid_condition, whatever the position of an invalid entry.
C3_every_entry_validated ==
    (fn = "is_valid_criterion" /\ IsConditionCriterion(arg) /\ ~Raised(out)) =>
        \A i \in 1..Len(arg.items[2].pairs) :
            ~Raised(is_valid_condition(PyTuple(arg.items[2].pairs[i])))

\* C4: no projection accepted by is_valid_projection has both an inclusion
\* flag (1/True) and an exclusion flag (0/False) on fields other than "_id",
\* in whatever order the entries come; an "_id" entry with an exclusion flag
\* does not count as an exclusion, and an "_id" entry with any other value
\* is rejected.
C4_no_mixed_projection ==
    fn = "is_valid_projection" =>
        LET fields == {i \in 1..Len(arg.pairs) : ~StrEq(arg.pairs[i][1], "_id")}
            ids == {i \in 1..Len(arg.pairs) : StrEq(arg.pairs[i][1], "_id")}
        IN  /\ ~Raised(out) =>
                /\ IsDict(arg)
                /\ ~\E i, j \in fields :
                       /\ NumEq(arg.pairs[i][2], 1)
                       /\ NumEq(arg.pairs[j][2], 0)
                /\ \A i \in ids : NumEq(arg.pairs[i][2], 0)
            /\ (/\ IsDict(arg)
                /\ \A i \in ids : NumEq(arg.pairs[i][2], 0)
                /\ \A i \in fields : /\ IsStr(arg.pairs[i][1])
                                     /\ NumEq(arg.pairs[i][2], 1)) =>
                   ~Raised(out)

\* C5: has_dollar_keys(d) depends only on the set of keys of d, not on
\* their order: it raises if a key is not a string; otherwise it returns
\* True if d is non-empty and every key begins with "$", False if no key
\* begins with "$" (the empty dict and the empty-string key included), and
\* raises AggregreatTypeError if some key begins with "$" and some does not.
C5_has_dollar_keys ==
    fn = "has_dollar_keys" =>
        LET keys == {arg.pairs[i][1] : i \in 1..Len(arg.pairs)}
            strings == \A k \in keys : IsStr(k)
            sigil == {k \in keys : Len(k.s) > 0 /\ SubSeq(k.s, 1, 1) = "$"}
        IN  /\ ~strings => Raised(out)
            /\ (strings /\ keys # {} /\ sigil = keys) => out = Return("True")
            /\ (strings /\ sigil = {}) => out = Return("False")
            /\ (strings /\ sigil # {} /\ sigil # keys) =>
                   out.exc = AggregreatTypeError
            /\ \A d \in KeyDicts :
                   {d.pairs[i][1] : i \in 1..Len(d.pairs)} = keys =>
                       has_dollar_keys(d) = out

\* three keys, the one beginning with "$" last: the mixture is found
C5_witness ==
    /\ fn = "has_dollar_keys"
    /\ Len(arg.pairs) = 3
    /\ arg.pairs[1][1] = PyStr("b")
    /\ arg.pairs[2][1] = PyStr("")
    /\ arg.pairs[3][1] = PyStr("$a")
    /\ out = Raise(AggregreatTypeError, "has_dollar_keys: mixed keys")

\* a document value: one of the seven primitive kinds, a list of document
\* values, or a dict with string keys, none beginning with "$", and
\* document values
RECURSIVE IsDocumentValue(_)
IsDocumentValue(v) ==
    \/ v.t \in {"NoneType", "bool", "int", "float", "str", "datetime", "ObjectId"}
    \/ /\ v.t = "list"
       /\ \A i \in 1..Len(v.items) : IsDocumentValue(v.items[i])
    \/ /\ v.t = "dict"
       /\ \A i \in 1..Len(v.pairs) :
              /\ v.pairs[i][1].t = "str"
              /\ ~(Len(v.pairs[i][1].s) > 0 /\ SubSeq(v.pairs[i][1].s, 1, 1) = "$")
              /\ IsDocumentValue(v.pairs[i][2])

\* C6: is_valid_bson(v) succeeds exactly when v is a document value; a dict
\* with a key beginning with "$" is rejected at any depth, inside lists and
\* inside dicts, and any other shape (a date, a tuple) is rejected.
C6_is_valid_bson ==
    fn = "is_valid_bson" =>
        /\ (out = Return("None")) <=> IsDocumentValue(arg)
        /\ ~IsDocumentValue(arg) => Raised(out)

\* an operator key three levels down, under a list, a dict and a list
C6_witness ==
    /\ fn = "is_valid_bson"
    /\ arg = PyList(<<Obj1("a", PyList(<<Obj1("$x", PyInt(1))>>))>>)
    /\ out = Raise(AggregreatTypeError, "bson: keys beginning with $")

\* C9: every rejection made by is_valid_pipeline, for any input, is raised
\* as AggregreatTypeError and never as another exception type; this
\* includes an $unwind operand that is the empty string, an $unwind options
\* mapping whose path is the empty string, and non-string keys anywhere.
C9_single_error_type ==
    (fn = "is_valid_pipeline" /\ Raised(out)) => out.exc = AggregreatTypeError

\* a chain of $not conditions: each operand a mapping of exactly one entry,
\* down to an innermost condition that is valid
RECURSIVE NotChainValid(_)
NotChainValid(condition) ==
    LET key == condition.items[1]
        v == condition.items[2]
    IN  IF StrEq(key, "$not")
        THEN /\ IsDict(v)
             /\ Len(v.pairs) = 1
             /\ NotChainValid(PyTuple(v.pairs[1]))
        ELSE ~Raised(is_valid_condition(condition))

\* C10: is_valid_condition(("$not", v)) succeeds exactly when v is a
\* mapping with exactly one entry and that entry is a valid condition,
\* checked recursively down nested $not chains; a non-mapping operand, an
\* empty mapping and a mapping of two or more entries are rejected.
C10_not_operand ==
    (fn = "is_valid_condition" /\ StrEq(arg.items[1], "$not")) =>
        /\ (out = Return("None")) <=> NotChainValid(arg)
        /\ ~NotChainValid(arg) => out.exc = AggregreatTypeError
        /\ (IsDict(arg.items[2]) /\ Len(arg.items[2].pairs) # 1) =>
               out = Raise(AggregreatTypeError, "$not: not exactly one pair")

\* two valid conditions under one $not: rejected for their number
C10_witness ==
    /\ fn = "is_valid_condition"
    /\ arg = Pair("$not", Obj2("$size", PyInt(2), "$gt", PyInt(2)))
    /\ out = Raise(AggregreatTypeError, "$not: not exactly one pair")

ConditionOperators ==
    {"$exists", "$size", "$not", "$elemMatch"} \cup ComparisonOperators
        \cup {"$in", "$nin"}

\* C11: is_valid_condition((op, operand)) succeeds only for the twelve
\* operators $exists, $size, $not, $elemMatch, $eq, $ne, $gt, $gte, $lt, $lte,
\* $in, $nin, and raises AggregreatTypeError for every other operator
\* ($all, $and, $or, a key with no sigil, a key that is no string); under $in
\* and $nin it succeeds exactly when the operand is a list of document
\* values, and under the six comparison operators exactly when the operand
\* is a document value.
C11_condition_operators ==
    fn = "is_valid_condition" =>
        LET key == arg.items[1]
            value == arg.items[2]
            known == IsStr(key) /\ key.s \in ConditionOperators
        IN  /\ ~Raised(out) => known
            /\ ~known => out = Raise(AggregreatTypeError, "unknown operator")
            /\ (IsStr(key) /\ key.s \in {"$in", "$nin"}) =>
                   /\ ~Raised(out) <=>
                          /\ IsList(value)
                          /\ \A i \in 1..Len(value.items) :
                                 IsDocumentValue(value.items[i])
                   /\ Raised(out) => out.exc = AggregreatTypeError
                   /\ ~IsList(value) =>
                          out = Raise(AggregreatTypeError, "array operator: not a list")
            /\ (IsStr(key) /\ key.s \in ComparisonOperators) =>
                   /\ ~Raised(out) <=> IsDocumentValue(value)
                   /\ out = is_valid_bson(value)

C11_witness ==
    /\ fn = "is_valid_condition"
    /\ arg = Pair("$all", PyList(<<PyInt(1), PyStr("dog")>>))
    /\ out = Raise(AggregreatTypeError, "unknown operator")

C13_size_and_exists_operands ==
    fn = "is_valid_condition" =>
        /\ StrEq(arg.items[1], "$size") =>
               /\ ~Raised(out) => arg.items[2].t = "int"
               /\ arg.items[2].t # "int" => out.exc = AggregreatTypeError
        /\ StrEq(arg.items[1], "$exists") =>
               /\ ~Raised(out) => arg.items[2].t = "bool"
               /\ arg.items[2].t # "bool" => out.exc = AggregreatTypeError

\* C14: is_valid_path_reference succeeds exactly when its argument is a
\* string that starts with "$" and has at least one character after it: a
\* non-string, the empty string, a string with no leading "$" and the bare
\* string "$" all raise.
C14_path_reference ==
    fn = "is_valid_path_reference" =>
        (~Raised(out) <=>
            /\ IsStr(arg)
            /\ Len(arg.s) >= 2
            /\ SubSeq(arg.s, 1, 1) = "$")

\* key begins with "$"
HasSigil(key) ==
    key.t = "str" /\ Len(key.s) > 0 /\ SubSeq(key.s, 1, 1) = "$"

C17_grammars_agree ==
    (fn = "Stage" /\ IsDict(arg) /\ Len(arg.pairs) = 1
        /\ StrEq(arg.pairs[1][1], "$match")) =>
        (is_valid_pipeline(PyList(<<arg>>)) = Return("True") <=> ~Raised(out))

(***************************************************************************)
(* The Pipeline class as a state machine.  pipes holds every Pipeline      *)
(* object made so far, oldest first, each with the raw stages it was given *)
(* (in the constructor's list, then one per match call).  A chain starts   *)
(* with a constructor call and grows by match on the newest object; pop    *)
(* may be called on any object.  order is the iteration order of the       *)
(* Query sets met while the stages are read back.                          *)
(***************************************************************************)
Orders == 0..5

GoodQueries ==
    {PyDict(<<>>),
     Obj2("a", PyList(<<PyDatetime, PyObjectId, PyNone, PyBool(TRUE)>>),
          "b", Obj2("c", PyFloat(5), "d", Obj1("e", PyStr("dog")))),
     Obj1("a", Obj2("$gte", PyInt(1), "$lte", PyDatetime)),
     Obj1("a.b", Obj1("$nin", PyList(<<PyStr("dog"), PyInt(3)>>))),
     Obj1("$or", PyList(<<
         Obj1("$nor", PyList(<<
             Obj2("a", PyStr("x"), "b", PyStr("y")),
             Obj1("_id", Obj1("$in", PyList(<<PyObjectId, PyStr("cat")>>)))>>)),
         Obj1("c", Obj1("$ne", PyInt(3)))>>)),
     Obj2("a", Obj1("$exists", PyBool(TRUE)), "b", Obj1("$size", PyInt(0))),
     Obj1("a", Obj1("$not", Obj1("$size", PyInt(2)))),
     Obj1("a", Obj1("$elemMatch",
                    Obj1("c", Obj2("$gt", PyInt(1), "$lte", PyInt(2)))))}

BadQueries ==
    {Obj1("someField", PyDate),
     Obj1("someField", PyDict(<< <<PyInt(3), PyStr("dog")>> >>)),
     Obj1("someField", PyList(<<Obj1("a", PyDict(<< <<PyInt(3), PyStr("dog")>> >>))>>)),
     Obj2("g", Obj1("", PyInt(1)), "f", PyDate),
     Obj1("someField", Obj1("", PyInt(1))),
     PyInt(5)}

MatchQueries == GoodQueries \cup BadQueries
MatchStages == {Obj1("$match", q) : q \in MatchQueries}

\* what Pipeline(...) is called with: nothing (stages=None), a list of stages,
\* or something that is no list of $match stages
ConstructorInputs ==
    {PyNone} \cup ListsOf(MatchStages, MaxStages)
    \cup {Obj1("$match", PyDict(<<>>)), PyInt(5),
          PyList(<<Obj1("$unwind", PyStr("$a"))>>),
          PyList(<<PyTuple(<<PyStr("$match"), PyDict(<<>>)>>)>>)}

PipelineInit ==
    /\ family = "builder"
    /\ fn = "none"
    /\ arg = PyNone
    /\ out = NoOutcome
    /\ examined = 0
    /\ pipes = NoPipes
    /\ recv = 0
    /\ popped = PyNone

\* the raw stages a constructor argument stands for
GivenStages(stages) == IF Truthy(stages) THEN stages.items ELSE <<>>

\* a call that raised leaves no new object; one that returned adds it
Adds(made, given) ==
    IF Raised(made) THEN pipes
    ELSE Append(pipes, [obj |-> made.ret, given |-> given])

\* Pipeline() or Pipeline(stages)
call_Pipeline ==
    /\ pipes = NoPipes
    /\ \E stages \in ConstructorInputs :
          /\ fn' = "Pipeline"
          /\ arg' = stages
          /\ out' = Pipeline(stages)
          /\ pipes' = Adds(out', IF Raised(out') THEN <<>> ELSE GivenStages(stages))
          /\ recv' = 0
          /\ popped' = PyNone
    /\ UNCHANGED <<family, examined>>

\* pipes[Len(pipes)].match(query)
call_match ==
    /\ pipes # NoPipes
    /\ Len(pipes[Len(pipes)].given) < MaxStages
    /\ \E query \in MatchQueries, order \in Orders :
          LET self == pipes[Len(pipes)]
          IN  /\ fn' = "match"
              /\ arg' = query
              /\ out' = match(self.obj, query, order)
              /\ pipes' = Adds(out', Append(self.given, Obj1("$match", query)))
              /\ recv' = Len(pipes)
              /\ popped' = PyNone
    /\ UNCHANGED <<family, examined>>

\* pipes[i].pop()
call_pop ==
    /\ \E i \in 1..Len(pipes), order \in Orders :
          /\ fn' = "pop"
          /\ arg' = PyNone
          /\ out' = NoOutcome
          /\ recv' = i
          /\ popped' = pop(pipes[i].obj, order)
    /\ UNCHANGED <<family, examined, pipes>>

PipelineNext ==
    \/ call_Pipeline
    \/ call_match
    \/ call_pop

PipelineSpec == PipelineInit /\ [][PipelineNext]_vars

(***************************************************************************)
(* Properties of the Pipeline class                                        *)
(***************************************************************************)
\* the query of a stage value {"$match": query}
IsMatchStage(stage) ==
    IsDict(stage) /\ Len(stage.pairs) = 1 /\ StrEq(stage.pairs[1][1], "$match")

\* the stages read back from object i, in any iteration order, are the
\* stages it was given, in call order, and so are those of a Pipeline
\* constructed from that list
ReadsBackGiven(i) ==
    LET given == PyList(pipes[i].given)
        direct == Pipeline(given)
    IN  /\ ~Raised(direct)
        /\ \A order \in Orders :
               /\ PyEq(pop(pipes[i].obj, order), given)
               /\ PyEq(pop(direct.ret, order), given)

\* C7: for every sequence q1..qn of well-formed queries (queries that
\* is_valid_query accepts), Pipeline().match(q1)...match(qn).pop() equals
\* [{"$match": q1}, ..., {"$match": qn}] in call order and equals the pop()
\* of the Pipeline constructed from that list; each match call returns a
\* new Pipeline (the receiver's entry is recv, the new one comes after it);
\* Pipeline().pop() is [].
C7_match_chain ==
    /\ (fn = "match" /\ ~Raised(is_valid_query(arg))) =>
           /\ ~Raised(out)
           /\ Len(pipes) > recv
           /\ pipes[Len(pipes)].obj = out.ret
           /\ pipes[Len(pipes)].given =
                  Append(pipes[recv].given, Obj1("$match", arg))
    /\ \A i \in 1..Len(pipes) : ReadsBackGiven(i)
    /\ (fn = "pop") => PyEq(popped, PyList(pipes[recv].given))
    /\ (fn = "Pipeline" /\ arg = PyNone) =>
           /\ ~Raised(out)
           /\ \A order \in Orders : pop(out.ret, order) = PyList(<<>>)

\* a field's body that is no BSON value: a scalar of a non-supported type,
\* or a mapping with a key that is not a string
IsBadBody(body) ==
    \/ body.t \notin {"NoneType", "bool", "int", "float", "str", "datetime",
                      "ObjectId", "list", "dict"}
    \/ /\ IsDict(body)
       /\ \E i \in 1..Len(body.pairs) : ~IsStr(body.pairs[i][1])

HasBadBody(query) ==
    /\ IsDict(query)
    /\ \E i \in 1..Len(query.pairs) : IsBadBody(query.pairs[i][2])

\* C8: Pipeline.match(query) and Pipeline([{"$match": query}]) raise
\* AggregateTypeError and yield no Pipeline object whenever a field's body
\* in query is no BSON value: a scalar of a non-supported type (a date) or
\* a mapping with a non-string key.
C8_bad_query_rejected ==
    /\ (fn = "match" /\ HasBadBody(arg)) =>
           /\ out.exc = AggregateTypeError
           /\ Len(pipes) = recv
    /\ (/\ fn = "Pipeline"
        /\ IsList(arg)
        /\ Len(arg.items) = 1
        /\ IsMatchStage(arg.items[1])
        /\ HasBadBody(arg.items[1].pairs[1][2])) =>
           /\ out.exc = AggregateTypeError
           /\ pipes = NoPipes

====
